---- MODULE Spec2Model ----
(***************************************************************************)
(* Model of codlocker-assets: the LocalStorage path validation and file    *)
(* retrieval (internal/storage/storage.go) and the /assets/ handler of     *)
(* main.go.  Strings are sequences of one-character strings.               *)
(***************************************************************************)
EXTENDS Integers, Sequences, FiniteSets, TLC

\* ------------------------------------------------------------------------
\* Bounds
\* ------------------------------------------------------------------------
MaxPathLen == 4

MaxContentLen == 6

\* ------------------------------------------------------------------------
\* Strings
\* ------------------------------------------------------------------------
Sep == "/"

Dot == "."

Min(a, b) == IF a <= b THEN a ELSE b

\* strings.HasPrefix(s, prefix)
HasPrefix(s, prefix) ==
  /\ Len(prefix) <= Len(s)
  /\ SubSeq(s, 1, Len(prefix)) = prefix

\* strings.Contains(s, substr)
Contains(s, substr) ==
  \E i \in 0..(Len(s) - Len(substr)) : SubSeq(s, i + 1, i + Len(substr)) = substr

\* strings.TrimPrefix(s, prefix)
TrimPrefix(s, prefix) ==
  IF HasPrefix(s, prefix) THEN SubSeq(s, Len(prefix) + 1, Len(s)) ELSE s

\* ------------------------------------------------------------------------
\* path/filepath (unix)
\* ------------------------------------------------------------------------
IsAbs(path) == Len(path) > 0 /\ path[1] = Sep

\* The ".." case of Clean: drop the last element of out, not below dotdot.
RECURSIVE Backtrack(_, _, _)
Backtrack(out, w, dotdot) ==
  IF w > dotdot /\ out[w + 1] # Sep
    THEN Backtrack(out, w - 1, dotdot)
    ELSE SubSeq(out, 1, w)

\* Index just past the path element that starts at r (0-based, as in Go).
RECURSIVE ElemEnd(_, _)
ElemEnd(path, r) ==
  IF r < Len(path) /\ path[r + 1] # Sep THEN ElemEnd(path, r + 1) ELSE r

\* The main loop of filepath.Clean; r and dotdot are 0-based as in Go,
\* out is the lazybuf written so far (out.w = Len(out)).
RECURSIVE CleanLoop(_, _, _, _, _)
CleanLoop(path, r, out, dotdot, rooted) ==
  LET n == Len(path) IN
  IF r >= n THEN out
  ELSE IF path[r + 1] = Sep
    THEN CleanLoop(path, r + 1, out, dotdot, rooted)
  ELSE IF path[r + 1] = Dot /\ (r + 1 = n \/ path[r + 2] = Sep)
    THEN CleanLoop(path, r + 1, out, dotdot, rooted)
  ELSE IF /\ path[r + 1] = Dot
          /\ path[r + 2] = Dot
          /\ (r + 2 = n \/ path[r + 3] = Sep)
    THEN IF Len(out) > dotdot
           THEN CleanLoop(path, r + 2, Backtrack(out, Len(out) - 1, dotdot),
                          dotdot, rooted)
         ELSE IF ~rooted
           THEN LET o2 == (IF Len(out) > 0 THEN Append(out, Sep) ELSE out)
                          \o <<Dot, Dot>>
                IN CleanLoop(path, r + 2, o2, Len(o2), rooted)
         ELSE CleanLoop(path, r + 2, out, dotdot, rooted)
  ELSE LET o2 == IF (rooted /\ Len(out) # 1) \/ (~rooted /\ Len(out) # 0)
                   THEN Append(out, Sep) ELSE out
           e  == ElemEnd(path, r)
       IN CleanLoop(path, e, o2 \o SubSeq(path, r + 1, e), dotdot, rooted)

\* filepath.Clean
Clean(path) ==
  IF path = <<>> THEN <<Dot>>
  ELSE LET rooted == path[1] = Sep
           out == IF rooted THEN CleanLoop(path, 1, <<Sep>>, 1, TRUE)
                            ELSE CleanLoop(path, 0, <<>>, 0, FALSE)
       IN IF out = <<>> THEN <<Dot>> ELSE out

\* filepath.Join(a, b): empty leading elements are skipped, the rest is
\* joined with the separator and cleaned.
Join(a, b) ==
  IF a # <<>> THEN Clean(a \o <<Sep>> \o b)
  ELSE IF b # <<>> THEN Clean(b)
  ELSE <<>>

\* The working directory of the process; os.Getwd fails when it is NoCwd.
NoCwd == <<"?">>

\* filepath.Abs(path) with os.Getwd() = wd
AbsFails(path, wd) == ~IsAbs(path) /\ wd = NoCwd

Abs(path, wd) == IF IsAbs(path) THEN Clean(path) ELSE Join(wd, path)

\* filepath.Ext(path)
RECURSIVE ExtFrom(_, _)
ExtFrom(path, i) ==
  IF i < 1 \/ path[i] = Sep THEN <<>>
  ELSE IF path[i] = Dot THEN SubSeq(path, i, Len(path))
  ELSE ExtFrom(path, i - 1)

Ext(path) == ExtFrom(path, Len(path))

\* ------------------------------------------------------------------------
\* The file system seen by os.Open, io.ReadAll and os.Stat
\* ------------------------------------------------------------------------
\* fs maps an absolute path to its entry; a path outside DOMAIN fs has none.
\* Entry kinds: "file" (readable, with bytes), "dir", "denied" (a file the
\* process may not open), "fault" (a file whose read fails).
Absent == [kind |-> "absent", data |-> <<>>]

RootDir == [kind |-> "dir", data |-> <<>>]

RECURSIVE LastSep(_, _)
LastSep(path, i) == IF i < 1 \/ path[i] = Sep THEN i ELSE LastSep(path, i - 1)

\* The directory holding an absolute clean path.
Parent(path) ==
  LET i == LastSep(path, Len(path)) IN
  IF i <= 1 THEN <<Sep>> ELSE SubSeq(path, 1, i - 1)

\* Path lookup by the kernel: ENOENT when a component is missing, ENOTDIR
\* when a component that must be a directory is not one.
RECURSIVE Lookup(_, _)
Lookup(files, path) ==
  IF path = <<Sep>> THEN [errno |-> "", entry |-> RootDir]
  ELSE LET par == Lookup(files, Parent(path)) IN
       IF par.errno # "" THEN par
       ELSE IF par.entry.kind # "dir" THEN [errno |-> "ENOTDIR", entry |-> Absent]
       ELSE IF path \in DOMAIN files THEN [errno |-> "", entry |-> files[path]]
       ELSE [errno |-> "ENOENT", entry |-> Absent]

\* What a system call finds at name, resolved against the working directory.
FsResolve(files, wd, name) ==
  IF ~IsAbs(name) /\ wd = NoCwd
    THEN [errno |-> "ENOENT", entry |-> Absent]
    ELSE Lookup(files, Abs(name, wd))

\* os.Open(name): the errno of the failure, "" on success
OpenErrno(files, wd, name) ==
  LET r == FsResolve(files, wd, name) IN
  IF r.errno # "" THEN r.errno
  ELSE IF r.entry.kind = "denied" THEN "EACCES"
  ELSE ""

\* io.ReadAll(file) on a file opened at name: the bytes read and the errno
ReadAll(files, wd, name) ==
  LET e == FsResolve(files, wd, name).entry IN
  IF e.kind = "file" THEN [data |-> e.data, errno |-> ""]
  ELSE IF e.kind = "dir" THEN [data |-> <<>>, errno |-> "EISDIR"]
  ELSE [data |-> <<>>, errno |-> "EIO"]

\* os.Stat(name): the errno of the failure, "" on success
StatErrno(files, wd, name) == FsResolve(files, wd, name).errno

\* IsNotExist never recognising absence
IsNotExistNever(errno) == FALSE

\* IsNotExist taking every failure for absence
IsNotExistAnyError(errno) == errno # ""

\* os.IsNotExist(err)
IsNotExist(errno) == errno = "ENOENT"

\* ------------------------------------------------------------------------
\* Errors
\* ------------------------------------------------------------------------
NoCause == [op |-> "", path |-> <<>>, errno |-> ""]

\* *fs.PathError
PathError(op, path, errno) == [op |-> op, path |-> path, errno |-> errno]

Nil == [msg |-> "nil", cause |-> NoCause]

\* fmt.Errorf(msg) and fmt.Errorf(msg + ": %w", cause); an empty msg is the
\* cause itself, returned unwrapped
FmtErrorf(msg, cause) == [msg |-> msg, cause |-> cause]

ErrTraversal == FmtErrorf("invalid path: path traversal detected", NoCause)

ErrOutside == FmtErrorf("invalid path: outside base directory", NoCause)

ErrNotFound == FmtErrorf("file not found", NoCause)

\* ------------------------------------------------------------------------
\* State
\* ------------------------------------------------------------------------
VARIABLES
  basePath,   \* LocalStorage.basePath
  cwd,        \* the working directory of the process, NoCwd if it has none
  fs,         \* the file system
  reqPath,    \* the path argument of Get and Exists
  get,        \* the frame of LocalStorage.Get: position, locals, results
  ex,         \* the frame of LocalStorage.Exists
  assetsBasePath,  \* main: the assets directory, from ASSETS_BASE_PATH
  hd,         \* the frame of the /assets/ handler of main
  resp,       \* the response written by the handler
  logged      \* the calls the handler made to the logger

VARIABLES
  current,       \* logger: the level, an atomic.Int32
  lastLevel,     \* the string given to the latest logger.Init or SetLevel
  emitted,       \* the latest call of Debugf/Infof/Warnf/Errorf and its effect
  flagLogLevel,  \* featureflags: the value of the LogLevel flag
  mainPc,        \* main: position in the logger set-up
  poll,          \* main: the frame of the log level watcher goroutine
  mwOpts,        \* middleware: the options given to LogRequests
  mwReq,         \* middleware: the latest request through LogRequests
  proc,          \* main: the life of the process
  db,            \* the database: configured, reachable
  offline,       \* featureflags: the value of the Offline flag
  served,        \* main: the latest request to the router and its outcome
  prev,          \* the result a caller kept from an earlier call
  conc           \* main: the frames of requests handled concurrently

\* logger
logVars == <<current, lastLevel, emitted>>

\* the log level watcher
watchVars == <<flagLogLevel, mainPc, poll>>

\* the request logging middleware
mwVars == <<mwOpts, mwReq>>

\* the server
serveVars == <<proc, db, offline, served>>

\* everything but the logger
vars_but_log ==
  <<basePath, cwd, fs, reqPath, get, ex, assetsBasePath, hd, resp, logged,
    watchVars, mwVars, serveVars, prev, conc>>

\* what the storage and the stepwise /assets/ handler never touch
aux == <<logVars, watchVars, mwVars, serveVars, prev, conc>>

vars == <<basePath, cwd, fs, reqPath, get, ex, assetsBasePath, hd, resp, logged, aux>>

\* the process environment
env == <<cwd, fs, assetsBasePath, aux>>

\* the values of the variables a specification does not use
LogVarsUnused == current = 0 /\ lastLevel = "none" /\ emitted = <<>>

WatchVarsUnused == flagLogLevel = "info" /\ mainPc = "none" /\ poll = <<>>

MwVarsUnused == mwOpts = <<>> /\ mwReq = <<>>

ServeVarsUnused == proc = "none" /\ db = <<>> /\ offline = FALSE /\ served = <<>>

PrevUnused == prev = <<>>

ConcUnused == conc = <<>>

AuxUnused ==
  /\ LogVarsUnused
  /\ WatchVarsUnused
  /\ MwVarsUnused
  /\ ServeVarsUnused
  /\ PrevUnused
  /\ ConcUnused

\* the state of the HTTP handler
web == <<hd, resp, logged>>

\* The frame of a call that has not started.
GetIdle ==
  [pc |-> "idle", cleanPath |-> <<>>, fullPath |-> <<>>, absBase |-> <<>>,
   absPath |-> <<>>, data |-> <<>>, err |-> Nil, opened |-> <<>>]

ExistsIdle ==
  [pc |-> "idle", cleanPath |-> <<>>, fullPath |-> <<>>, absBase |-> <<>>,
   absPath |-> <<>>, ret |-> FALSE, statted |-> <<>>]

\* NewLocalStorage(basePath)
NewLocalStorage(base) == base

\* ------------------------------------------------------------------------
\* LocalStorage.Get, one action per block of the function
\* ------------------------------------------------------------------------
\* First check: the cleaned path must not contain "..".
TraversalDetected(cleanPath) == Contains(cleanPath, <<Dot, Dot>>)

\* the second check with its result ignored
WithinBaseIgnored(absPath, absBase) == TRUE

\* Second check: the absolute path must start with the absolute base.
WithinBase(absPath, absBase) == HasPrefix(absPath, absBase)

\* return of Get
GetReturn(data, err) == [get EXCEPT !.pc = "done", !.data = data, !.err = err]

\* storage.go 26-31
GetTraversalCheck ==
  /\ get.pc = "start"
  /\ LET cleanPath == Clean(reqPath) IN
     get' = IF TraversalDetected(cleanPath)
              THEN [GetReturn(<<>>, ErrTraversal) EXCEPT !.cleanPath = cleanPath]
              ELSE [get EXCEPT !.pc = "resolve", !.cleanPath = cleanPath]
  /\ UNCHANGED <<env, basePath, reqPath, ex, web>>

\* storage.go 33-44
GetResolve ==
  /\ get.pc = "resolve"
  /\ LET fullPath == Join(basePath, get.cleanPath) IN
     get' = IF AbsFails(basePath, cwd)
              THEN [GetReturn(<<>>, FmtErrorf("failed to resolve base path",
                                             PathError("getwd", <<>>, "ENOENT")))
                      EXCEPT !.fullPath = fullPath]
            ELSE IF AbsFails(fullPath, cwd)
              THEN [GetReturn(<<>>, FmtErrorf("failed to resolve file path",
                                             PathError("getwd", <<>>, "ENOENT")))
                      EXCEPT !.fullPath = fullPath, !.absBase = Abs(basePath, cwd)]
            ELSE [get EXCEPT !.pc = "contain", !.fullPath = fullPath,
                             !.absBase = Abs(basePath, cwd),
                             !.absPath = Abs(fullPath, cwd)]
  /\ UNCHANGED <<env, basePath, reqPath, ex, web>>

\* storage.go 46-48
GetContainCheck ==
  /\ get.pc = "contain"
  /\ get' = IF ~WithinBase(get.absPath, get.absBase)
              THEN GetReturn(<<>>, ErrOutside)
              ELSE [get EXCEPT !.pc = "open"]
  /\ UNCHANGED <<env, basePath, reqPath, ex, web>>

\* storage.go 50-57
GetOpen ==
  /\ get.pc = "open"
  /\ LET errno == OpenErrno(fs, cwd, get.fullPath)
         opened == Append(get.opened, get.fullPath)
     IN get' = IF errno # ""
                 THEN IF IsNotExist(errno)
                        THEN [GetReturn(<<>>, ErrNotFound) EXCEPT !.opened = opened]
                        ELSE [GetReturn(<<>>, FmtErrorf("failed to open file",
                                              PathError("open", get.fullPath, errno)))
                                EXCEPT !.opened = opened]
                 ELSE [get EXCEPT !.pc = "read", !.opened = opened]
  /\ UNCHANGED <<env, basePath, reqPath, ex, web>>

\* a Get that removes the file it has read
GetReadRemoving ==
  /\ get.pc = "read"
  /\ LET r == ReadAll(fs, cwd, get.fullPath) IN
     get' = IF r.errno # ""
              THEN GetReturn(r.data, FmtErrorf("", PathError("read", get.fullPath, r.errno)))
              ELSE GetReturn(r.data, Nil)
  /\ fs' = [p \in DOMAIN fs \ {Abs(get.fullPath, cwd)} |-> fs[p]]
  /\ UNCHANGED <<cwd, assetsBasePath, aux, basePath, reqPath, ex, web>>

\* storage.go 59
GetRead ==
  /\ get.pc = "read"
  /\ LET r == ReadAll(fs, cwd, get.fullPath) IN
     get' = IF r.errno # ""
              THEN GetReturn(r.data, FmtErrorf("", PathError("read", get.fullPath, r.errno)))
              ELSE GetReturn(r.data, Nil)
  /\ UNCHANGED <<env, basePath, reqPath, ex, web>>

\* ------------------------------------------------------------------------
\* LocalStorage.Exists
\* ------------------------------------------------------------------------
\* Exists without the first check
ExistsTraversalUnchecked(cleanPath) == FALSE

ExistsTraversalDetected(cleanPath) == Contains(cleanPath, <<Dot, Dot>>)

ExistsWithinBase(absPath, absBase) == HasPrefix(absPath, absBase)

\* return of Exists
ExistsReturn(b) == [ex EXCEPT !.pc = "done", !.ret = b]

\* storage.go 62-66
ExistsTraversalCheck ==
  /\ ex.pc = "start"
  /\ LET cleanPath == Clean(reqPath) IN
     ex' = IF ExistsTraversalDetected(cleanPath)
             THEN [ExistsReturn(FALSE) EXCEPT !.cleanPath = cleanPath]
             ELSE [ex EXCEPT !.pc = "resolve", !.cleanPath = cleanPath]
  /\ UNCHANGED <<env, basePath, reqPath, get, web>>

\* storage.go 68-79
ExistsResolve ==
  /\ ex.pc = "resolve"
  /\ LET fullPath == Join(basePath, ex.cleanPath) IN
     ex' = IF AbsFails(basePath, cwd)
             THEN [ExistsReturn(FALSE) EXCEPT !.fullPath = fullPath]
           ELSE IF AbsFails(fullPath, cwd)
             THEN [ExistsReturn(FALSE) EXCEPT !.fullPath = fullPath,
                                              !.absBase = Abs(basePath, cwd)]
           ELSE [ex EXCEPT !.pc = "contain", !.fullPath = fullPath,
                           !.absBase = Abs(basePath, cwd),
                           !.absPath = Abs(fullPath, cwd)]
  /\ UNCHANGED <<env, basePath, reqPath, get, web>>

\* storage.go 81-83
ExistsContainCheck ==
  /\ ex.pc = "contain"
  /\ ex' = IF ~ExistsWithinBase(ex.absPath, ex.absBase)
             THEN ExistsReturn(FALSE)
             ELSE [ex EXCEPT !.pc = "stat"]
  /\ UNCHANGED <<env, basePath, reqPath, get, web>>

\* storage.go 85-86
ExistsStat ==
  /\ ex.pc = "stat"
  /\ ex' = [ExistsReturn(StatErrno(fs, cwd, ex.fullPath) = "")
             EXCEPT !.statted = Append(ex.statted, ex.fullPath)]
  /\ UNCHANGED <<env, basePath, reqPath, get, web>>

\* ------------------------------------------------------------------------
\* A caller of the Storage interface: one call at a time, on reqPath
\* ------------------------------------------------------------------------
NoCallRunning == get.pc \in {"idle", "done"} /\ ex.pc \in {"idle", "done"}

CallGet ==
  /\ NoCallRunning
  /\ get' = [GetIdle EXCEPT !.pc = "start"]
  /\ UNCHANGED <<env, basePath, reqPath, ex, web>>

CallExists ==
  /\ NoCallRunning
  /\ ex' = [ExistsIdle EXCEPT !.pc = "start"]
  /\ UNCHANGED <<env, basePath, reqPath, get, web>>

\* ------------------------------------------------------------------------
\* The handler of /assets/ in main
\* ------------------------------------------------------------------------
HandlerIdle == [pc |-> "idle", url |-> <<>>, assetPath |-> <<>>, storageLocation |-> ""]

NoResponse ==
  [status |-> 0, contentType |-> "", cacheControl |-> "", body |-> <<>>,
   sliced |-> 0]

\* mime.TypeByExtension(ext): the built-in table, looked up case-sensitively
\* and then in lower case; "" when the extension is unknown
MimeTypes ==
  (<<Dot, "j", "p", "g">> :> "image/jpeg")
  @@ (<<Dot, "p", "n", "g">> :> "image/png")
  @@ (<<Dot, "s", "v", "g">> :> "image/svg+xml")

ToLower(c) ==
  IF c = "J" THEN "j" ELSE IF c = "P" THEN "p" ELSE IF c = "G" THEN "g" ELSE c

TypeByExtension(ext) ==
  LET lower == [i \in 1..Len(ext) |-> ToLower(ext[i])] IN
  IF ext \in DOMAIN MimeTypes THEN MimeTypes[ext]
  ELSE IF lower \in DOMAIN MimeTypes THEN MimeTypes[lower]
  ELSE ""

\* data[:n]. The bytes come from io.ReadAll, whose buffer has room beyond
\* len(data): slicing past the end yields the unwritten zero bytes.
SliceTo(data, n) == [i \in 1..n |-> IF i <= Len(data) THEN data[i] ELSE "NUL"]

SvgTag == <<"<", "s", "v", "g">>

XmlDecl == <<"<", "?", "x", "m", "l">>

\* the guard with the length of the shorter probe
SniffGuardShort(data) == Len(data) > 3

\* main.go: len(data) > 4
SniffGuard(data) == Len(data) > 4

\* the test recognising only the svg tag
IsSVGTagOnly(data) == SniffGuard(data) /\ SliceTo(data, 4) = SvgTag

\* main.go: len(data) > 4 && (string(data[:4]) == "<svg" || string(data[:5]) == "<?xml")
IsSVG(data) ==
  SniffGuard(data) /\ (SliceTo(data, 4) = SvgTag \/ SliceTo(data, 5) = XmlDecl)

\* the largest n for which the test above evaluates data[:n]
Sliced(data) ==
  IF ~SniffGuard(data) THEN 0
  ELSE IF SliceTo(data, 4) = SvgTag THEN 4
  ELSE 5

\* the Content-Type of a successfully read asset
ContentType(assetPath, data) ==
  LET contentType == TypeByExtension(Ext(assetPath)) IN
  IF IsSVG(data) THEN "image/svg+xml"
  ELSE IF contentType = "" THEN "application/octet-stream"
  ELSE contentType

\* http.Error(w, text, code)
HttpError(text, code) ==
  [status |-> code, contentType |-> "text/plain; charset=utf-8",
   cacheControl |-> "", body |-> <<text>>, sliced |-> 0]

\* a response carrying the text of the error
ErrorResponseLeaking(err) == HttpError(err.msg, 404)

\* the response to a failed Get
ErrorResponse(err) == HttpError("not found\n", 404)

\* os.Getenv("ASSETS_BASE_PATH") with the default
AssetsBasePath(envValue) ==
  IF envValue = <<>> THEN <<Dot, Sep, "a", "s", "s", "e", "t", "s">> ELSE envValue

AssetsPrefix == <<Sep, "a", "s", "s", "e", "t", "s", Sep>>

\* a switch whose "bucket" case serves from a bucket mount
StoreForBucketMount(loc, base) ==
  IF loc = "bucket" THEN NewLocalStorage(<<Sep, "b", "u", "c", "k", "e", "t">>)
  ELSE NewLocalStorage(base)

\* main.go 155-164: switch storageLocation; "bucket", "local" and default
\* all make a LocalStorage on the assets base path
StoreFor(loc, base) ==
  IF loc = "bucket" THEN NewLocalStorage(base)
  ELSE IF loc = "local" THEN NewLocalStorage(base)
  ELSE NewLocalStorage(base)

\* main.go 147-166: the request reaches the handler, which strips the
\* prefix, picks the backend by the flag and calls store.Get
AssetRequest(u, loc) ==
  /\ hd.pc \in {"idle", "done"}
  /\ LET assetPath == TrimPrefix(u, AssetsPrefix) IN
     /\ hd' = [pc |-> "get", url |-> u, assetPath |-> assetPath,
               storageLocation |-> loc]
     /\ logged' = IF loc = "bucket"
                    THEN <<[level |-> "warn",
                            format |-> "bucket storage not yet implemented, falling back to local",
                            path |-> <<>>, err |-> Nil]>>
                    ELSE <<>>
     /\ basePath' = StoreFor(loc, assetsBasePath)
     /\ reqPath' = assetPath
  /\ get' = [GetIdle EXCEPT !.pc = "start"]
  /\ resp' = NoResponse
  /\ UNCHANGED <<env, ex>>

\* main.go 166-186: the handler answers from the result of store.Get
AssetRespond ==
  /\ hd.pc = "get"
  /\ get.pc = "done"
  /\ hd' = [hd EXCEPT !.pc = "done"]
  /\ IF get.err # Nil
       THEN /\ logged' = Append(logged, [level |-> "debug",
                                         format |-> "asset not found: %s (%v)",
                                         path |-> hd.assetPath, err |-> get.err])
            /\ resp' = ErrorResponse(get.err)
       ELSE /\ logged' = logged
            /\ resp' = [status |-> 200,
                        contentType |-> ContentType(hd.assetPath, get.data),
                        cacheControl |-> "public, max-age=31536000",
                        body |-> get.data,
                        sliced |-> Sliced(get.data)]
  /\ UNCHANGED <<env, basePath, reqPath, get, ex>>

\* ------------------------------------------------------------------------
\* Storage used directly: every base, working directory and request path
\* ------------------------------------------------------------------------
PathAlphabet == {Sep, Dot, "a"}

\* all strings over PathAlphabet of length at most n
StringsUpTo(n) == UNION {[1..k -> PathAlphabet] : k \in 0..n}

Paths == StringsUpTo(MaxPathLen)

Bases == {<<>>, <<Sep>>, <<Sep, "a">>, <<"a">>, <<Dot>>}

Cwds == {<<Sep>>, <<Sep, "a">>, NoCwd}

File(bytes) == [kind |-> "file", data |-> bytes]

Dir == [kind |-> "dir", data |-> <<>>]

\* what may be found at /a/a
Entries ==
  {Absent, File(<<>>), File(<<"x", "y">>), Dir,
   [kind |-> "denied", data |-> <<"x">>], [kind |-> "fault", data |-> <<"x">>]}

\* A directory /a holding a and ..a, a file /aa beside it, and a file
\* /a/a/a that exists when /a/a is a directory.
Tree(e) ==
  LET fixed == (<<Sep, "a">> :> Dir)
               @@ (<<Sep, "a", "a">> :> File(<<"s">>))
               @@ (<<Sep, "a", Sep, Dot, Dot, "a">> :> File(<<"d">>))
               @@ (<<Sep, "a", Sep, "a", Sep, "a">> :> File(<<"n">>))
  IN IF e = Absent THEN fixed ELSE (<<Sep, "a", Sep, "a">> :> e) @@ fixed

Init ==
  /\ basePath \in {NewLocalStorage(b) : b \in Bases}
  /\ cwd \in Cwds
  /\ fs \in {Tree(e) : e \in Entries}
  /\ reqPath \in Paths
  /\ get = GetIdle
  /\ ex = ExistsIdle
  /\ assetsBasePath = <<>>
  /\ hd = HandlerIdle
  /\ resp = NoResponse
  /\ logged = <<>>
  /\ AuxUnused

Next ==
  \/ CallGet
  \/ GetTraversalCheck
  \/ GetResolve
  \/ GetContainCheck
  \/ GetOpen
  \/ GetRead
  \/ CallExists
  \/ ExistsTraversalCheck
  \/ ExistsResolve
  \/ ExistsContainCheck
  \/ ExistsStat

Spec == Init /\ [][Next]_vars

\* ------------------------------------------------------------------------
\* The service: requests under /assets/ served from the assets directory
\* ------------------------------------------------------------------------
AppDir == <<Sep, "a", "p", "p">>

\* values of ASSETS_BASE_PATH: unset, and /srv
EnvValues == {<<>>, <<Sep, "s", "r", "v">>}

\* the files of the assets directory, relative to it
AssetNames ==
  {<<"x", Dot, "j", "p", "g">>,
   <<"x", Dot, "J", "P", "G">>,
   <<"x", Dot, "s", "v", "g">>,
   <<"x", Dot, "b", "i", "n">>,
   <<"x">>,
   <<"x", Dot, Dot, "j", "p", "g">>,
   <<"d", Sep, "x", Dot, "p", "n", "g">>}

\* the names requested: the files, a missing one, and the directory itself
RequestNames == AssetNames \cup {<<"m", Dot, "p", "n", "g">>, <<>>}

UrlPaths == {AssetsPrefix \o n : n \in RequestNames}

StorageLocations == {"local", "bucket", "other"}

\* the first n bytes of s
Prefix(s, n) == SubSeq(s, 1, Min(n, Len(s)))

ContentSamples ==
  {<<"<", "s", "v", "g", " ", "w", "i", "d">>,
   <<"<", "?", "x", "m", "l", " ", "v", "e">>,
   <<"<", "s", "v", "x", "<", "s", "v", "g">>,
   <<"<", "?", "x", "m", "<", "?", "x", "m">>,
   <<" ", "<", "s", "v", "g", " ", "w", "i">>,
   <<"G", "I", "F", "8", "9", "a", ";", ";">>}

Contents == {Prefix(s, n) : s \in ContentSamples, n \in 0..MaxContentLen}

\* what every file of the assets directory may be
AssetEntries ==
  {File(c) : c \in Contents}
    \cup {Absent, Dir, [kind |-> "denied", data |-> <<>>],
          [kind |-> "fault", data |-> <<>>]}

\* the assets directory at root, every file of it being e
AssetTree(root, e) ==
  LET dirs == (AppDir :> Dir) @@ (root :> Dir) @@ (root \o <<Sep, "d">> :> Dir)
      files == {root \o <<Sep>> \o n : n \in AssetNames}
  IN IF e = Absent THEN dirs ELSE [f \in files |-> e] @@ dirs

InitAsset ==
  /\ cwd = AppDir
  /\ \E v \in EnvValues :
       /\ assetsBasePath = AssetsBasePath(v)
       /\ fs \in {AssetTree(Abs(AssetsBasePath(v), AppDir), e) : e \in AssetEntries}
  /\ basePath = <<>>
  /\ reqPath = <<>>
  /\ get = GetIdle
  /\ ex = ExistsIdle
  /\ hd = HandlerIdle
  /\ resp = NoResponse
  /\ logged = <<>>
  /\ AuxUnused

NextAsset ==
  \/ \E u \in UrlPaths, loc \in StorageLocations : AssetRequest(u, loc)
  \/ GetTraversalCheck
  \/ GetResolve
  \/ GetContainCheck
  \/ GetOpen
  \/ GetRead
  \/ AssetRespond

SpecAsset == InitAsset /\ [][NextAsset]_vars

\* ------------------------------------------------------------------------
\* Notions the properties are stated in
\* ------------------------------------------------------------------------
\* The segments of a clean path, e.g. /a/b -> <<"a", "b">>
RECURSIVE SegmentsFrom(_, _, _, _)
SegmentsFrom(path, i, cur, acc) ==
  IF i > Len(path) THEN (IF cur = <<>> THEN acc ELSE Append(acc, cur))
  ELSE IF path[i] = Sep
    THEN SegmentsFrom(path, i + 1, <<>>, IF cur = <<>> THEN acc ELSE Append(acc, cur))
  ELSE SegmentsFrom(path, i + 1, Append(cur, path[i]), acc)

Segments(path) == SegmentsFrom(path, 1, <<>>, <<>>)

\* path is dir itself or lies under it, compared segment by segment
Under(path, dir) ==
  LET sp == Segments(path)
      sd == Segments(dir)
  IN Len(sd) <= Len(sp) /\ SubSeq(sp, 1, Len(sd)) = sd

\* the absolute forms of the base and of the joined path exist
AbsDefined ==
  /\ ~(~IsAbs(basePath) /\ cwd = NoCwd)
  /\ ~(~IsAbs(Join(basePath, Clean(reqPath))) /\ cwd = NoCwd)

TheAbsBase == Abs(basePath, cwd)

TheAbsPath == Abs(Join(basePath, Clean(reqPath)), cwd)

\* the two checks of the code, on the request at hand
ChecksPass ==
  /\ ~Contains(Clean(reqPath), <<Dot, Dot>>)
  /\ AbsDefined
  /\ HasPrefix(TheAbsPath, TheAbsBase)

InvalidPathErr(err) ==
  err.msg \in {"invalid path: path traversal detected",
               "invalid path: outside base directory"}

\* what the file system holds at the location the request names
Target == Lookup(fs, TheAbsPath)

\* ------------------------------------------------------------------------
\* C1. Containment: when the absolute form of the join of the base with the
\* cleaned request path is neither the absolute base nor under it, Get
\* returns an invalid-path error.
\* ------------------------------------------------------------------------
C1_Containment ==
  (get.pc = "done" /\ AbsDefined /\ ~Under(TheAbsPath, TheAbsBase))
    => InvalidPathErr(get.err)

\* ------------------------------------------------------------------------
\* C2. No string-prefix false positive: a candidate that passed the
\* containment check of Get or Exists is the absolute base or nested under
\* it at a segment boundary.
\* ------------------------------------------------------------------------
C2_SegmentBoundary ==
  /\ get.pc \in {"open", "read"} => Under(get.absPath, get.absBase)
  /\ ex.pc = "stat" => Under(ex.absPath, ex.absBase)

\* ------------------------------------------------------------------------
\* C3. Validation precedes file system access: Get opens and Exists stats
\* only after the traversal check and the containment check both passed; a
\* rejected call returns the invalid-path error (false for Exists) and has
\* opened or statted nothing.
\* ------------------------------------------------------------------------
C3_ValidationFirst ==
  /\ get.opened # <<>> => ChecksPass
  /\ ex.statted # <<>> => ChecksPass
  /\ get.pc \in {"start", "resolve", "contain"} => get.opened = <<>>
  /\ ex.pc \in {"start", "resolve", "contain"} => ex.statted = <<>>
  /\ (get.pc = "done" /\ AbsDefined /\ ~ChecksPass)
       => InvalidPathErr(get.err) /\ get.opened = <<>>
  /\ (ex.pc = "done" /\ ~ChecksPass) => ex.ret = FALSE /\ ex.statted = <<>>

C3_Witness ==
  /\ reqPath = <<Dot, Dot, Sep, "a">>
  /\ get.pc = "done" /\ InvalidPathErr(get.err) /\ get.opened = <<>>
  /\ ex.pc = "done" /\ ex.ret = FALSE /\ ex.statted = <<>>

\* ------------------------------------------------------------------------
\* C4. Round trip: for a relative request path whose cleaned form lies
\* inside the base and at which a readable regular file with bytes B is
\* present, Get returns B and a nil error.
\* ------------------------------------------------------------------------
C4_RoundTrip ==
  (/\ get.pc = "done"
   /\ ~IsAbs(reqPath)
   /\ \A i \in DOMAIN Segments(Clean(reqPath)) :
        Segments(Clean(reqPath))[i] # <<Dot, Dot>>
   /\ AbsDefined
   /\ Under(TheAbsPath, TheAbsBase)
   /\ Target.errno = ""
   /\ Target.entry.kind = "file")
    => get.data = Target.entry.data /\ get.err = Nil

\* ------------------------------------------------------------------------
\* C5. Absent file: for a path that passes validation and at which the file
\* system has no entry (ENOENT), Get returns the file-not-found error and
\* Exists returns false.
\* ------------------------------------------------------------------------
C5_AbsentFile ==
  /\ (get.pc = "done" /\ ChecksPass /\ Target.errno = "ENOENT")
       => get.err.msg = "file not found" /\ get.err.cause = NoCause
  /\ (ex.pc = "done" /\ ChecksPass /\ Target.errno = "ENOENT")
       => ex.ret = FALSE

C5_Witness ==
  /\ get.pc = "done" /\ ex.pc = "done"
  /\ ChecksPass /\ Target.errno = "ENOENT"
  /\ get.opened # <<>> /\ ex.statted # <<>>
  /\ get.err = ErrNotFound /\ ex.ret = FALSE

\* ------------------------------------------------------------------------
\* C6. Exists applies the path-safety algorithm of Get: on the same base and
\* path Exists returns before its stat exactly when Get returns before its
\* open; Exists returns false for every rejected and every absent path; and
\* Exists always returns a boolean.
\* ------------------------------------------------------------------------
C6_ExistsLikeGet ==
  /\ (get.pc = "done" /\ ex.pc = "done")
       => ((get.opened = <<>>) <=> (ex.statted = <<>>))
  /\ (ex.pc = "done" /\ ~ChecksPass) => ex.ret = FALSE
  /\ (ex.pc = "done" /\ ChecksPass /\ Target.errno # "") => ex.ret = FALSE
  /\ ex.ret \in BOOLEAN

C6_Witness ==
  /\ get.pc = "done" /\ ex.pc = "done"
  /\ Contains(Clean(reqPath), <<Dot, Dot>>)
  /\ get.opened = <<>> /\ ex.statted = <<>> /\ ex.ret = FALSE

\* ------------------------------------------------------------------------
\* C7. Error classification: every failure of Get is of exactly one of the
\* kinds invalid path, not found, I/O error; an open or read failure other
\* than absence of the entry (permission denied, a directory, a component
\* that is not a directory, a read fault) is of the I/O-error kind.
\* ------------------------------------------------------------------------
ErrKind(err) ==
  IF InvalidPathErr(err) /\ err.cause = NoCause THEN "InvalidPath"
  ELSE IF err.msg = "file not found" /\ err.cause = NoCause THEN "NotFound"
  ELSE IF err.cause.errno # "" /\ err.cause.errno # "ENOENT" THEN "IOError"
  ELSE IF err.cause.op = "getwd" THEN "IOError"
  ELSE "none"

C7_ErrorKinds ==
  /\ (get.pc = "done" /\ get.err # Nil)
       => ErrKind(get.err) \in {"InvalidPath", "NotFound", "IOError"}
  /\ (/\ get.pc = "done"
      /\ ChecksPass
      /\ \/ Target.errno = "ENOTDIR"
         \/ Target.errno = "" /\ Target.entry.kind \in {"denied", "dir", "fault"})
       => get.err # Nil /\ ErrKind(get.err) = "IOError"

C7_Witness ==
  /\ get.pc = "done" /\ ChecksPass
  /\ Target.errno = "" /\ Target.entry.kind = "denied"
  /\ get.err.msg = "failed to open file" /\ get.err.cause.errno = "EACCES"

\* ------------------------------------------------------------------------
\* C8. Error outcomes are indistinguishable to the client: whenever Get
\* failed, whatever the error, the response is 404 with the fixed body, and
\* the error reaches only the debug logger.
\* ------------------------------------------------------------------------
C8_UniformNotFound ==
  (hd.pc = "done" /\ get.err # Nil)
    => /\ resp = [status |-> 404, contentType |-> "text/plain; charset=utf-8",
                  cacheControl |-> "", body |-> <<"not found\n">>, sliced |-> 0]
       /\ logged # <<>>
       /\ logged[Len(logged)].level = "debug"
       /\ logged[Len(logged)].err = get.err

C8_Witness ==
  /\ hd.pc = "done"
  /\ get.err.msg = "failed to open file"
  /\ resp.status = 404
  /\ resp.body = <<"not found\n">>

\* ------------------------------------------------------------------------
\* C9 as claimed: the Content-Type of a successfully read asset is
\* image/svg+xml if the content starts with "<svg" or "<?xml", otherwise the
\* type of the extension, and application/octet-stream exactly when neither
\* rule yields a type.
\* ------------------------------------------------------------------------
StartsAsSVG(data) == HasPrefix(data, SvgTag) \/ HasPrefix(data, XmlDecl)

ExtensionType(assetPath) ==
  LET e == Ext(assetPath) IN
  IF e \in {<<Dot, "j", "p", "g">>, <<Dot, "J", "P", "G">>} THEN "image/jpeg"
  ELSE IF e = <<Dot, "p", "n", "g">> THEN "image/png"
  ELSE IF e = <<Dot, "s", "v", "g">> THEN "image/svg+xml"
  ELSE ""

C9_AsClaimed ==
  (hd.pc = "done" /\ get.err = Nil)
    => /\ resp.contentType =
            IF StartsAsSVG(get.data) THEN "image/svg+xml"
            ELSE IF ExtensionType(hd.assetPath) # "" THEN ExtensionType(hd.assetPath)
            ELSE "application/octet-stream"
       /\ resp.contentType # ""

\* ------------------------------------------------------------------------
\* C9 amended: the Content-Type of a successfully read asset is
\* image/svg+xml if the content is at least 5 bytes long and starts with
\* "<svg" or "<?xml"; otherwise the type of the extension; it is
\* application/octet-stream exactly when neither rule yields a type; it is
\* never empty.
\* ------------------------------------------------------------------------
C9_ContentType ==
  (hd.pc = "done" /\ get.err = Nil)
    => LET svg == Len(get.data) >= 5 /\ StartsAsSVG(get.data)
           ext == ExtensionType(hd.assetPath)
       IN /\ svg => resp.contentType = "image/svg+xml"
          /\ (~svg /\ ext # "") => resp.contentType = ext
          /\ (resp.contentType = "application/octet-stream") <=> (~svg /\ ext = "")
          /\ resp.contentType # ""
          /\ resp.status = 200

C9_Witness ==
  /\ hd.pc = "done" /\ get.err = Nil
  /\ hd.assetPath = <<"x", Dot, "j", "p", "g">>
  /\ get.data = XmlDecl
  /\ resp.contentType = "image/svg+xml"

\* ------------------------------------------------------------------------
\* C10. Short-content safety: for content shorter than 5 bytes the
\* classifier slices nothing past the end of the content, answers, does not
\* apply the SVG rule, and the type is that of the extension or
\* application/octet-stream.
\* ------------------------------------------------------------------------
C10_ShortContent ==
  (hd.pc = "done" /\ get.err = Nil /\ Len(get.data) < 5)
    => /\ resp.sliced <= Len(get.data)
       /\ resp.status = 200
       /\ resp.body = get.data
       /\ resp.contentType =
            IF ExtensionType(hd.assetPath) # "" THEN ExtensionType(hd.assetPath)
            ELSE "application/octet-stream"

C10_Witness ==
  /\ hd.pc = "done" /\ get.err = Nil
  /\ get.data = SvgTag
  /\ hd.assetPath = <<"x", Dot, "j", "p", "g">>
  /\ resp.contentType = "image/jpeg"
  /\ resp.sliced = 0

\* ------------------------------------------------------------------------
\* C19. The first check of Get and of Exists rejects the request path if and
\* only if a segment of its cleaned form is "..".
\* ------------------------------------------------------------------------
HasParentSegment(cleanPath) ==
  \E i \in DOMAIN Segments(cleanPath) : Segments(cleanPath)[i] = <<Dot, Dot>>

C19_SegmentCheck ==
  /\ get.pc \notin {"idle", "start"}
       => ((get.pc = "done" /\ get.err = ErrTraversal)
             <=> HasParentSegment(Clean(reqPath)))
  /\ ex.pc \notin {"idle", "start"}
       => ((ex.pc = "done" /\ ex.fullPath = <<>>)
             <=> HasParentSegment(Clean(reqPath)))

\* ------------------------------------------------------------------------
\* The levelled logger (package logger)
\* ------------------------------------------------------------------------
Debug == 0

Info == 1

Warn == 2

Error == 3

\* the switch of SetLevel with the "error" case missing
LevelOfWithoutError(level) ==
  IF level = "debug" THEN Debug
  ELSE IF level = "warn" THEN Warn
  ELSE Info

\* the switch of SetLevel: the Level stored for a string
LevelOf(level) ==
  IF level = "debug" THEN Debug
  ELSE IF level = "warn" THEN Warn
  ELSE IF level = "error" THEN Error
  ELSE Info

\* GetLevel, of a stored Level
LevelName(l) ==
  IF l = Debug THEN "debug"
  ELSE IF l = Warn THEN "warn"
  ELSE IF l = Error THEN "error"
  ELSE "info"

GetLevel == LevelName(current)

\* the guard with a strict comparison
EmitsStrictly(l, threshold) == l < threshold

\* the guard of Debugf, Infof, Warnf, Errorf: Level(current.Load()) <= threshold
Emits(l, threshold) == l <= threshold

NoLevel == [fn |-> "none", level |-> ""]

NoEmit == [fn |-> "none", printed |-> FALSE, after |-> NoLevel]

\* SetLevel(level)
SetLevel(level) ==
  /\ current' = LevelOf(level)
  /\ lastLevel' = [fn |-> "SetLevel", level |-> level]
  /\ UNCHANGED <<emitted, vars_but_log>>

\* Init(level): SetLevel, then the output of package log is set up
LoggerInit(level) ==
  /\ current' = LevelOf(level)
  /\ lastLevel' = [fn |-> "Init", level |-> level]
  /\ UNCHANGED <<emitted, vars_but_log>>

\* a call of one of the four printing functions
Logf(fn, threshold) ==
  /\ emitted' = [fn |-> fn, printed |-> Emits(current, threshold),
                 after |-> lastLevel]
  /\ UNCHANGED <<current, lastLevel, vars_but_log>>

Debugf == Logf("Debugf", Debug)

Infof == Logf("Infof", Info)

Warnf == Logf("Warnf", Warn)

Errorf == Logf("Errorf", Error)

\* the strings given to Init and SetLevel
LevelStrings == {"debug", "info", "warn", "error", "unknown", "", "DEBUG"}

InitLogger ==
  /\ current = 0
  /\ lastLevel = NoLevel
  /\ emitted = NoEmit
  /\ basePath = <<>> /\ cwd = NoCwd /\ fs = <<>> /\ reqPath = <<>>
  /\ get = GetIdle /\ ex = ExistsIdle /\ assetsBasePath = <<>>
  /\ hd = HandlerIdle /\ resp = NoResponse /\ logged = <<>>
  /\ WatchVarsUnused /\ MwVarsUnused /\ ServeVarsUnused
  /\ PrevUnused /\ ConcUnused

NextLogger ==
  \/ \E s \in LevelStrings : LoggerInit(s)
  \/ \E s \in LevelStrings : SetLevel(s)
  \/ Debugf
  \/ Infof
  \/ Warnf
  \/ Errorf

SpecLogger == InitLogger /\ [][NextLogger]_vars

\* ------------------------------------------------------------------------
\* C14. Logger level round trip: after SetLevel(s) or Init(s), GetLevel
\* returns s when s is one of "debug", "info", "warn", "error" and "info"
\* for every other string; the latest call wins.
\* ------------------------------------------------------------------------
C14_LevelRoundTrip ==
  lastLevel.fn # "none"
    => GetLevel = IF lastLevel.level \in {"debug", "info", "warn", "error"}
                    THEN lastLevel.level ELSE "info"

C14_Witness ==
  /\ lastLevel = [fn |-> "SetLevel", level |-> "error"]
  /\ GetLevel = "error"
  /\ emitted.after = [fn |-> "Init", level |-> "unknown"]

\* ------------------------------------------------------------------------
\* C15. Logger threshold: after any Init and SetLevel calls, a printing call
\* emits a line if and only if its severity is at or above the level in
\* force (debug < info < warn < error).
\* ------------------------------------------------------------------------
Rank(name) ==
  IF name = "debug" THEN 0 ELSE IF name = "info" THEN 1
  ELSE IF name = "warn" THEN 2 ELSE IF name = "error" THEN 3 ELSE 1

Severity(fn) ==
  IF fn = "Debugf" THEN 0 ELSE IF fn = "Infof" THEN 1
  ELSE IF fn = "Warnf" THEN 2 ELSE 3

C15_Threshold ==
  (emitted.fn # "none" /\ emitted.after.fn # "none")
    => /\ emitted.printed <=> Severity(emitted.fn) >= Rank(emitted.after.level)
       /\ emitted.fn = "Errorf" => emitted.printed
       /\ emitted.fn = "Debugf" => (emitted.printed <=> emitted.after.level = "debug")

C15_Witness ==
  /\ emitted = [fn |-> "Errorf", printed |-> TRUE,
                after |-> [fn |-> "SetLevel", level |-> "error"]]

\* ------------------------------------------------------------------------
\* main: the logger follows the LogLevel flag (Dockerfile, main.go part)
\* ------------------------------------------------------------------------
\* everything but the logger level and the watcher
vars_but_watch ==
  <<basePath, cwd, fs, reqPath, get, ex, assetsBasePath, hd, resp, logged,
    emitted, mwVars, serveVars, prev, conc>>

\* values the flag service may deliver for LogLevel: the default, the other
\* options, and a value outside the options
FlagLogLevels == {"info", "debug", "warn", "error", "trace"}

PollNotStarted == [pc |-> "none", prev |-> "", cur |-> ""]

\* the flag client changes the value behind featureflags.Values().LogLevel
FlagUpdate(v) ==
  /\ v # flagLogLevel
  /\ flagLogLevel' = v
  /\ UNCHANGED <<current, lastLevel, mainPc, poll, vars_but_watch>>

\* logger.Init(featureflags.Values().LogLevel.GetValue(nil))
MainLoggerInit ==
  /\ mainPc = "init"
  /\ current' = LevelOf(flagLogLevel)
  /\ lastLevel' = [fn |-> "Init", level |-> flagLogLevel]
  /\ mainPc' = "go"
  /\ UNCHANGED <<flagLogLevel, poll, vars_but_watch>>

\* go func() { ... }(): the goroutine exists, main goes on to the router
MainGo ==
  /\ mainPc = "go"
  /\ mainPc' = "router"
  /\ poll' = [poll EXCEPT !.pc = "start"]
  /\ UNCHANGED <<flagLogLevel, current, lastLevel, vars_but_watch>>

\* prev := featureflags.Values().LogLevel.GetValue(nil)
PollStart ==
  /\ poll.pc = "start"
  /\ poll' = [poll EXCEPT !.pc = "sleep", !.prev = flagLogLevel]
  /\ UNCHANGED <<flagLogLevel, current, lastLevel, mainPc, vars_but_watch>>

\* time.Sleep(5s); cur := featureflags.Values().LogLevel.GetValue(nil)
PollRead ==
  /\ poll.pc = "sleep"
  /\ poll' = [poll EXCEPT !.pc = "compare", !.cur = flagLogLevel]
  /\ UNCHANGED <<flagLogLevel, current, lastLevel, mainPc, vars_but_watch>>

\* cur != prev
Changed(cur, old) == cur # old

\* if cur != prev { logger.SetLevel(cur); ...; prev = cur }
PollCompare ==
  /\ poll.pc = "compare"
  /\ IF Changed(poll.cur, poll.prev)
       THEN /\ current' = LevelOf(poll.cur)
            /\ lastLevel' = [fn |-> "SetLevel", level |-> poll.cur]
            /\ poll' = [poll EXCEPT !.pc = "sleep", !.prev = poll.cur]
       ELSE /\ poll' = [poll EXCEPT !.pc = "sleep"]
            /\ UNCHANGED <<current, lastLevel>>
  /\ UNCHANGED <<flagLogLevel, mainPc, vars_but_watch>>

InitWatch ==
  /\ flagLogLevel \in FlagLogLevels
  /\ mainPc = "init"
  /\ poll = PollNotStarted
  /\ current = 0
  /\ lastLevel = NoLevel
  /\ emitted = NoEmit
  /\ basePath = <<>> /\ cwd = NoCwd /\ fs = <<>> /\ reqPath = <<>>
  /\ get = GetIdle /\ ex = ExistsIdle /\ assetsBasePath = <<>>
  /\ hd = HandlerIdle /\ resp = NoResponse /\ logged = <<>>
  /\ MwVarsUnused /\ ServeVarsUnused /\ PrevUnused /\ ConcUnused

MainStep == MainLoggerInit \/ MainGo

PollStep == PollStart \/ PollRead \/ PollCompare

NextWatch ==
  \/ \E v \in FlagLogLevels : FlagUpdate(v)
  \/ MainLoggerInit
  \/ MainGo
  \/ PollStart
  \/ PollRead
  \/ PollCompare

\* main and the goroutine are scheduled and the sleep returns; nothing is
\* assumed about when the flag changes
SpecWatch ==
  /\ InitWatch /\ [][NextWatch]_vars
  /\ WF_vars(MainStep) /\ WF_vars(PollStep)

\* ------------------------------------------------------------------------
\* C20. Log level follows the flag: if from some point on the LogLevel flag
\* keeps a value v, the logger's level eventually equals the level SetLevel
\* maps v to, whatever the interleaving of flag updates with logger.Init and
\* the start of the polling goroutine; the poller calls SetLevel only when
\* the polled value differs from the previously polled one.
\* ------------------------------------------------------------------------
C20_OnlyOnChange ==
  [][(poll.pc = "compare" /\ lastLevel' # lastLevel)
       => (poll.cur # poll.prev /\ lastLevel'.level = poll.cur)]_vars

C20_LevelFollowsFlag ==
  /\ \A v \in FlagLogLevels :
       <>[](flagLogLevel = v) => <>[](current = LevelOf(v))
  /\ C20_OnlyOnChange

\* ------------------------------------------------------------------------
\* The request logging middleware (package middleware)
\* ------------------------------------------------------------------------
\* everything but the middleware
vars_but_mw ==
  <<basePath, cwd, fs, reqPath, get, ex, assetsBasePath, hd, resp, logged,
    logVars, watchVars, serveVars, prev, conc>>

\* the set of the elements of a sequence
Range(s) == {s[i] : i \in DOMAIN s}

\* an option that replaces the skip set by its own paths
WithSkipsReplacing(skips, paths) == Range(paths)

\* WithSkips(paths...) applied to o: every path is added to o.skips
WithSkips(skips, paths) == skips \cup Range(paths)

\* for _, fn := range options { fn(o) }, from the i-th option on
RECURSIVE ApplyOptions(_, _, _)
ApplyOptions(options, i, skips) ==
  IF i > Len(options) THEN skips
  ELSE ApplyOptions(options, i + 1, WithSkips(skips, options[i]))

\* wrap{status: 200}
WrapInitialStatus == 200

\* the calls a handler makes on its ResponseWriter
WriteHeaderCall(code) == [fn |-> "WriteHeader", code |-> code]

WriteCall == [fn |-> "Write", code |-> 0]

\* wrap.WriteHeader: status = code, for each call in order
RECURSIVE WrapStatus(_, _, _)
WrapStatus(calls, i, status) ==
  IF i > Len(calls) THEN status
  ELSE WrapStatus(calls, i + 1,
                  IF calls[i].fn = "WriteHeader" THEN calls[i].code ELSE status)

\* the status the underlying ResponseWriter sends: the first WriteHeader
\* wins, a Write before any WriteHeader (or no call at all) sends 200
RECURSIVE SentStatus(_, _)
SentStatus(calls, i) ==
  IF i > Len(calls) THEN 200
  ELSE IF calls[i].fn = "WriteHeader" THEN calls[i].code
  ELSE 200

\* _, ok := o.skips[r.URL.Path]
Skipped(skips, path) == path \in skips

\* r.URL.String()
UrlString(path, rawQuery) == [path |-> path, rawQuery |-> rawQuery]

\* log.Printf("%s %s status=%d ...", r.Method, r.URL.String(), ww.status, ...)
LogLine(method, url, status) == [method |-> method, url |-> url, status |-> status]

MwNotBuilt == [pc |-> "none", options |-> <<>>, skips |-> {}]

MwNoRequest ==
  [pc |-> "none", method |-> "", path |-> "", rawQuery |-> "", calls |-> <<>>,
   nextCalls |-> 0, wrapped |-> FALSE, lines |-> <<>>, sent |-> 0]

\* LogRequests(options...): the skip set is built once
LogRequests(options) ==
  /\ mwOpts.pc = "none"
  /\ mwOpts' = [pc |-> "built", options |-> options,
                skips |-> ApplyOptions(options, 1, {})]
  /\ UNCHANGED <<mwReq, vars_but_mw>>

\* the handler returned by LogRequests serves one request; calls are the
\* calls the next handler makes on the ResponseWriter it is given
MwServeHTTP(method, path, rawQuery, calls) ==
  /\ mwOpts.pc = "built"
  /\ mwReq' =
       IF Skipped(mwOpts.skips, path)
         THEN [pc |-> "served", method |-> method, path |-> path,
               rawQuery |-> rawQuery, calls |-> calls, nextCalls |-> 1,
               wrapped |-> FALSE, lines |-> <<>>, sent |-> SentStatus(calls, 1)]
         ELSE [pc |-> "served", method |-> method, path |-> path,
               rawQuery |-> rawQuery, calls |-> calls, nextCalls |-> 1,
               wrapped |-> TRUE,
               lines |-> <<LogLine(method, UrlString(path, rawQuery),
                                   WrapStatus(calls, 1, WrapInitialStatus))>>,
               sent |-> SentStatus(calls, 1)]
  /\ UNCHANGED <<mwOpts, vars_but_mw>>

\* the path lists given to WithSkips
SkipLists == {<<>>, <<"/health">>, <<"/ready">>, <<"/health", "/ready">>}

MaxOptions == 2

OptionLists == UNION {[1..n -> SkipLists] : n \in 0..MaxOptions}

Methods == {"GET", "POST"}

MwPaths == {"/health", "/ready", "/healthz", "/health/", "/assets/a", "/"}

RawQueries == {"", "v=1"}

\* what a next handler does with its ResponseWriter
HandlerCalls ==
  {<<>>, <<WriteCall>>, <<WriteHeaderCall(404)>>,
   <<WriteHeaderCall(503), WriteCall>>, <<WriteCall, WriteHeaderCall(500)>>,
   <<WriteHeaderCall(500), WriteHeaderCall(200)>>}

InitMw ==
  /\ mwOpts = MwNotBuilt
  /\ mwReq = MwNoRequest
  /\ basePath = <<>> /\ cwd = NoCwd /\ fs = <<>> /\ reqPath = <<>>
  /\ get = GetIdle /\ ex = ExistsIdle /\ assetsBasePath = <<>>
  /\ hd = HandlerIdle /\ resp = NoResponse /\ logged = <<>>
  /\ LogVarsUnused /\ WatchVarsUnused /\ ServeVarsUnused
  /\ PrevUnused /\ ConcUnused

NextMw ==
  \/ \E options \in OptionLists : LogRequests(options)
  \/ \E method \in Methods, path \in MwPaths, rawQuery \in RawQueries,
        calls \in HandlerCalls : MwServeHTTP(method, path, rawQuery, calls)

SpecMw == InitMw /\ [][NextMw]_vars

\* ------------------------------------------------------------------------
\* C16. Request logging: for every request through LogRequests the next
\* handler is invoked exactly once; exactly one line with the method, the
\* URL and the status is logged when the path equals no member of the skip
\* set, and none when it does; the skip set is the union of the paths of all
\* WithSkips options; the logged status is 200 when the handler never calls
\* WriteHeader.
\* ------------------------------------------------------------------------
AllSkipPaths(options) ==
  {p \in MwPaths : \E i \in DOMAIN options : \E j \in DOMAIN options[i] :
                     options[i][j] = p}

CallsWriteHeader(calls) == \E i \in DOMAIN calls : calls[i].fn = "WriteHeader"

C16_RequestLogging ==
  mwReq.pc = "served"
    => /\ mwReq.nextCalls = 1
       /\ mwOpts.skips = AllSkipPaths(mwOpts.options)
       /\ Len(mwReq.lines) = IF mwReq.path \in AllSkipPaths(mwOpts.options)
                               THEN 0 ELSE 1
       /\ \A i \in DOMAIN mwReq.lines :
            /\ mwReq.lines[i].method = mwReq.method
            /\ mwReq.lines[i].url = [path |-> mwReq.path, rawQuery |-> mwReq.rawQuery]
            /\ ~CallsWriteHeader(mwReq.calls) => mwReq.lines[i].status = 200

C16_Witness ==
  /\ mwReq.pc = "served"
  /\ mwOpts.options = <<(<<"/health">>), (<<"/ready">>)>>
  /\ mwReq.path = "/health"
  /\ mwReq.lines = <<>>
  /\ mwReq.nextCalls = 1

\* ------------------------------------------------------------------------
\* main: start-up, the router, the offline gate and the route handlers
\* ------------------------------------------------------------------------
\* everything but what a request through the router touches
vars_but_serve ==
  <<cwd, fs, ex, assetsBasePath, logVars, watchVars, mwVars, prev, conc>>

HealthPath == <<Sep, "h", "e", "a", "l", "t", "h">>

ReadyPath == <<Sep, "r", "e", "a", "d", "y">>

FlagsPath == <<Sep, "_", "f", "l", "a", "g", "s">>

\* the routes in the order of registration
Routes ==
  <<[name |-> "health", path |-> HealthPath, prefix |-> FALSE, method |-> "GET"],
    [name |-> "ready", path |-> ReadyPath, prefix |-> FALSE, method |-> "GET"],
    [name |-> "flags", path |-> FlagsPath, prefix |-> FALSE, method |-> "GET"],
    [name |-> "assets", path |-> AssetsPrefix, prefix |-> TRUE, method |-> "GET"]>>

\* mux cleanPath: path.Clean, with the trailing slash kept
CleanUrlPath(p) ==
  LET q == IF p = <<>> THEN <<Sep>>
           ELSE IF p[1] # Sep THEN <<Sep>> \o p ELSE p
      np == Clean(q)
  IN IF q[Len(q)] = Sep /\ np # <<Sep>> THEN np \o <<Sep>> ELSE np

\* the path matcher of a route: HandleFunc matches the whole path,
\* PathPrefix the beginning
PathMatches(route, path) ==
  IF route.prefix THEN HasPrefix(path, route.path) ELSE path = route.path

\* Router.Match: the first route matching path and method; a route matching
\* the path only leaves a method mismatch behind
RECURSIVE RouterMatch(_, _, _, _)
RouterMatch(method, path, i, mismatch) ==
  IF i > Len(Routes)
    THEN IF mismatch THEN "methodNotAllowed" ELSE "notFound"
  ELSE IF PathMatches(Routes[i], path)
    THEN IF Routes[i].method = method THEN Routes[i].name
         ELSE RouterMatch(method, path, i + 1, TRUE)
  ELSE RouterMatch(method, path, i + 1, mismatch)

\* a gate that lets nothing through while offline
GateBypassNone(path) == FALSE

\* offlineGate: r.URL.Path == "/health" || r.URL.Path == "/ready"
GateBypass(path) == path = HealthPath \/ path = ReadyPath

\* offlineGate: what happens to a request that reached the middleware
Gate(path, isOffline) ==
  IF GateBypass(path) THEN "bypass"
  ELSE IF isOffline THEN "blocked"
  ELSE "passed"

\* mw.LogRequests(mw.WithSkips("/health", "/ready"))
MainSkips == ApplyOptions(<<(<<HealthPath, ReadyPath>>)>>, 1, {})

\* a response without Content-Type chosen by the handler
Plain(status, body) ==
  [status |-> status, contentType |-> "", cacheControl |-> "", body |-> body,
   sliced |-> 0]

\* the handler of /health
HealthHandler == Plain(200, <<"ok">>)

\* a handler of /ready that does not look at the ping
ReadyHandlerWithoutPing(pingOk) == Plain(200, <<"ready">>)

\* the handler of /ready, given the result of sqlDB.Ping()
ReadyHandler(pingOk) ==
  IF ~pingOk THEN HttpError("db not ready\n", 503)
  ELSE Plain(200, <<"ready">>)

\* the handler of /_flags
FlagsHandler(isOffline, logLevel, loc) ==
  [status |-> 200, contentType |-> "application/json", cacheControl |-> "",
   body |-> <<[offline |-> isOffline, logLevel |-> logLevel,
               imageStorageLocation |-> loc]>>,
   sliced |-> 0]

\* the answer of the handler of a route; the handler of /assets/ answers
\* after its call of store.Get
HandlerAnswer(route, isOffline, pingOk, logLevel, loc) ==
  IF route = "health" THEN HealthHandler
  ELSE IF route = "ready" THEN ReadyHandler(pingOk)
  ELSE IF route = "flags" THEN FlagsHandler(isOffline, logLevel, loc)
  ELSE NoResponse

\* what the router and the middlewares make of a request before any handler
\* of main runs: gate is "none" when no middleware ran
Dispatch(method, path, isOffline) ==
  IF CleanUrlPath(path) # path
    THEN [route |-> "redirect", gate |-> "none", answer |-> Plain(301, <<>>)]
  ELSE LET route == RouterMatch(method, path, 1, FALSE) IN
    IF route = "notFound"
      THEN [route |-> route, gate |-> "none",
            answer |-> HttpError("404 page not found\n", 404)]
    ELSE IF route = "methodNotAllowed"
      THEN [route |-> route, gate |-> "none", answer |-> Plain(405, <<>>)]
    ELSE IF Gate(path, isOffline) = "blocked"
      THEN [route |-> route, gate |-> "blocked",
            answer |-> HttpError("service temporarily offline\n", 503)]
    ELSE [route |-> route, gate |-> Gate(path, isOffline), answer |-> NoResponse]

NoRequest ==
  [pc |-> "none", method |-> "", path |-> <<>>, loc |-> "", offlineAt |-> FALSE,
   dbUpAt |-> FALSE, route |-> "", gate |-> "none", handler |-> "none",
   answer |-> NoResponse, lines |-> <<>>]

DbStates == [configured : BOOLEAN, up : BOOLEAN]

\* db.Init: AUTH_DB_URL is empty, main ends in log.Fatalf
DbInitUnconfigured ==
  /\ proc = "dbInit"
  /\ ~db.configured
  /\ proc' = "exited"
  /\ UNCHANGED <<db, offline, served, basePath, reqPath, get, hd, resp, logged,
                 vars_but_serve>>

\* db.Init: a ping succeeds before the deadline, main goes on to serve
DbInitConnected ==
  /\ proc = "dbInit"
  /\ db.configured /\ db.up
  /\ proc' = "serving"
  /\ UNCHANGED <<db, offline, served, basePath, reqPath, get, hd, resp, logged,
                 vars_but_serve>>

\* db.Init: the deadline passes without a ping, main ends in log.Fatalf
DbInitTimeout ==
  /\ proc = "dbInit"
  /\ db.configured /\ ~db.up
  /\ proc' = "exited"
  /\ UNCHANGED <<db, offline, served, basePath, reqPath, get, hd, resp, logged,
                 vars_but_serve>>

\* the database goes down or comes up
DbChange ==
  /\ db.configured
  /\ db' = [db EXCEPT !.up = ~db.up]
  /\ UNCHANGED <<proc, offline, served, basePath, reqPath, get, hd, resp, logged,
                 vars_but_serve>>

\* the flag client changes the Offline flag
SetOffline(b) ==
  /\ b # offline
  /\ offline' = b
  /\ UNCHANGED <<proc, db, served, basePath, reqPath, get, hd, resp, logged,
                 vars_but_serve>>

\* a request arrives: router, offlineGate, LogRequests, and the handlers of
\* /health, /ready and /_flags; a request for /assets/ is left at its handler
ServeHTTP(method, path, loc) ==
  /\ proc = "serving"
  /\ served.pc \in {"none", "done"}
  /\ LET d == Dispatch(method, path, offline)
         reached == d.gate \in {"bypass", "passed"}
         answer == IF ~reached THEN d.answer
                   ELSE HandlerAnswer(d.route, offline, db.up, flagLogLevel, loc)
         lines == IF reached /\ d.route # "assets" /\ ~Skipped(MainSkips, path)
                    THEN <<LogLine(method, UrlString(path, ""), answer.status)>>
                    ELSE <<>>
     IN served' = [pc |-> IF reached /\ d.route = "assets"
                            THEN "dispatched" ELSE "done",
                   method |-> method, path |-> path, loc |-> loc,
                   offlineAt |-> offline, dbUpAt |-> db.up,
                   route |-> d.route, gate |-> d.gate,
                   handler |-> IF reached THEN d.route ELSE "none",
                   answer |-> answer, lines |-> lines]
  /\ hd' = HandlerIdle
  /\ get' = GetIdle
  /\ resp' = NoResponse
  /\ logged' = <<>>
  /\ UNCHANGED <<proc, db, offline, basePath, reqPath, vars_but_serve>>

\* the handler of /assets/ starts on the dispatched request
ServeAsset ==
  /\ served.pc = "dispatched"
  /\ hd.pc = "idle"
  /\ AssetRequest(served.path, served.loc)

\* the handler of /assets/ has returned; LogRequests prints its line
ServeAssetDone ==
  /\ served.pc = "dispatched"
  /\ hd.pc = "done"
  /\ served' = [served EXCEPT
                  !.pc = "done", !.answer = resp,
                  !.lines = <<LogLine(served.method, UrlString(served.path, ""),
                                      resp.status)>>]
  /\ UNCHANGED <<proc, db, offline, basePath, reqPath, get, hd, resp, logged,
                 vars_but_serve>>

\* the request paths: the routes, near misses of them, and unclean paths
ServePaths ==
  {HealthPath, ReadyPath, FlagsPath,
   HealthPath \o <<"z">>, HealthPath \o <<Sep>>, <<Sep>> \o HealthPath,
   <<Sep>>, <<Sep, "a", "s", "s", "e", "t", "s">>,
   AssetsPrefix \o <<"x", Dot, "j", "p", "g">>,
   AssetsPrefix \o <<"m", Dot, "p", "n", "g">>,
   AssetsPrefix \o <<Dot, Dot>> \o HealthPath}

ServeEntries == {File(<<"<", "s", "v", "g", " ", "w">>), Absent}

\* values of the ImageStorageLocation flag
ServeLocations == {"local", "bucket"}

InitServe ==
  /\ proc = "dbInit"
  /\ db \in DbStates
  /\ offline \in BOOLEAN
  /\ served = NoRequest
  /\ cwd = AppDir
  /\ assetsBasePath = AssetsBasePath(<<>>)
  /\ fs \in {AssetTree(Abs(AssetsBasePath(<<>>), AppDir), e) : e \in ServeEntries}
  /\ basePath = <<>>
  /\ reqPath = <<>>
  /\ get = GetIdle
  /\ ex = ExistsIdle
  /\ hd = HandlerIdle
  /\ resp = NoResponse
  /\ logged = <<>>
  /\ LogVarsUnused /\ WatchVarsUnused /\ MwVarsUnused /\ PrevUnused /\ ConcUnused

NextServe ==
  \/ DbInitUnconfigured
  \/ DbInitConnected
  \/ DbInitTimeout
  \/ DbChange
  \/ \E b \in BOOLEAN : SetOffline(b)
  \/ \E method \in Methods, path \in ServePaths, loc \in ServeLocations :
       ServeHTTP(method, path, loc)
  \/ ServeAsset
  \/ GetTraversalCheck
  \/ GetResolve
  \/ GetContainCheck
  \/ GetOpen
  \/ GetRead
  \/ AssetRespond
  \/ ServeAssetDone

SpecServe == InitServe /\ [][NextServe]_vars

\* ------------------------------------------------------------------------
\* Notions of the properties of the service
\* ------------------------------------------------------------------------
IsProbe(path) == path = HealthPath \/ path = ReadyPath

\* the request names a route registered in main, path and method
Registered(method, path) ==
  /\ method = "GET"
  /\ path \in {HealthPath, ReadyPath, FlagsPath} \/ HasPrefix(path, AssetsPrefix)
  /\ \A i \in 1..(Len(path) - 1) :
       /\ ~(path[i] = Sep /\ path[i + 1] = Sep)
       /\ ~(path[i] = Dot /\ path[i + 1] = Dot)

StorageUntouched == hd = HandlerIdle /\ get = GetIdle /\ resp = NoResponse

\* ------------------------------------------------------------------------
\* C12. Offline gate, as claimed: while the Offline flag is enabled every
\* request whose path is not exactly /health or /ready is answered 503 and
\* reaches neither a route handler nor the storage; requests to /health and
\* /ready always reach their handler; with the flag disabled the request is
\* passed through.
\* ------------------------------------------------------------------------
C12_AsClaimed ==
  served.pc # "none"
    => /\ (served.offlineAt /\ ~IsProbe(served.path))
            => /\ served.answer.status = 503
               /\ served.handler = "none"
               /\ StorageUntouched
       /\ IsProbe(served.path) => served.handler \in {"health", "ready"}
       /\ ~served.offlineAt => served.gate # "blocked"

\* C12, amended. While the Offline flag is enabled no request whose path is
\* not exactly /health or /ready reaches a route handler or the storage:
\* it is answered 503 when it names a registered route (path and method) and
\* gets the router's own 301, 404 or 405 otherwise. GET requests to /health
\* and /ready reach their handler whatever the flag. The flag is read for
\* each request: with the flag disabled a request naming a registered route
\* reaches its handler.
C12_OfflineGate ==
  served.pc # "none"
    => /\ (served.offlineAt /\ ~IsProbe(served.path))
            => /\ served.handler = "none"
               /\ StorageUntouched
               /\ served.answer.status \in {503, 301, 404, 405}
               /\ served.answer.status = 503
                    <=> Registered(served.method, served.path)
       /\ (IsProbe(served.path) /\ served.method = "GET")
            => served.handler = (IF served.path = HealthPath THEN "health"
                                 ELSE "ready")
       /\ (~served.offlineAt /\ Registered(served.method, served.path))
            => served.handler # "none"

C12_Witness ==
  /\ served.pc = "done"
  /\ served.offlineAt
  /\ served.path = AssetsPrefix \o <<"x", Dot, "j", "p", "g">>
  /\ served.answer.status = 503
  /\ StorageUntouched

\* ------------------------------------------------------------------------
\* C13. The database is used only for the readiness probe: whether /health
\* and /assets/ requests are served depends on the database neither at
\* start-up nor afterwards; only the answer of /ready depends on it.
\* ------------------------------------------------------------------------
C13_DbOnlyForReady ==
  /\ proc # "exited"
  /\ (served.pc = "done" /\ served.handler \in {"health", "flags"})
       => \A up \in BOOLEAN :
            served.answer = HandlerAnswer(served.handler, served.offlineAt, up,
                                          flagLogLevel, served.loc)

\* ------------------------------------------------------------------------
\* C17. Probes: a GET /health is answered 200 "ok" whatever the database
\* and the Offline flag; a GET /ready is answered 200 "ready" if and only
\* if the ping made for the request succeeds, and 503 otherwise.
\* ------------------------------------------------------------------------
C17_Probes ==
  (served.pc = "done" /\ served.method = "GET")
    => /\ served.path = HealthPath
            => served.answer.status = 200 /\ served.answer.body = <<"ok">>
       /\ served.path = ReadyPath
            => /\ served.answer.status \in {200, 503}
               /\ served.answer.status = 200 <=> served.dbUpAt
               /\ served.answer.status = 200 => served.answer.body = <<"ready">>

C17_Witness ==
  /\ served.pc = "done"
  /\ served.method = "GET"
  /\ served.path = ReadyPath
  /\ served.offlineAt
  /\ ~served.dbUpAt
  /\ served.answer.status = 503

\* ------------------------------------------------------------------------
\* Repeated calls: the storage and the /assets/ handler called again and
\* again on one file system
\* ------------------------------------------------------------------------
NoPrev ==
  [set |-> FALSE, base |-> <<>>, path |-> <<>>, data |-> <<>>, err |-> Nil,
   url |-> <<>>, loc |-> "", resp |-> NoResponse]

\* the caller keeps the results of a finished request
Remember ==
  /\ NoCallRunning
  /\ hd.pc = "done"
  /\ get.pc = "done"
  /\ prev' = [set |-> TRUE, base |-> basePath, path |-> reqPath,
              data |-> get.data, err |-> get.err,
              url |-> hd.url, loc |-> hd.storageLocation, resp |-> resp]
  /\ UNCHANGED <<basePath, cwd, fs, reqPath, get, ex, assetsBasePath, hd, resp,
                 logged, logVars, watchVars, mwVars, serveVars, conc>>

\* store.Get called again with the path of the last request
RepeatGet == hd.pc = "done" /\ CallGet

\* store.Exists called with the path of the last request
RepeatExists == hd.pc = "done" /\ CallExists

\* a new request once the calls of the last one have returned
NextRequest(u, loc) == NoCallRunning /\ AssetRequest(u, loc)

IdemEntries ==
  {File(<<"<", "s", "v", "g", " ", "w">>), File(<<"G", "I", "F">>), Absent,
   [kind |-> "denied", data |-> <<>>]}

IdemUrls ==
  {AssetsPrefix \o n : n \in {<<"x", Dot, "j", "p", "g">>,
                               <<"x", Dot, Dot, "j", "p", "g">>,
                               <<"m", Dot, "p", "n", "g">>, <<>>}}

InitIdem ==
  /\ cwd = AppDir
  /\ assetsBasePath = AssetsBasePath(<<>>)
  /\ fs \in {AssetTree(Abs(AssetsBasePath(<<>>), AppDir), e) : e \in IdemEntries}
  /\ basePath = <<>>
  /\ reqPath = <<>>
  /\ get = GetIdle
  /\ ex = ExistsIdle
  /\ hd = HandlerIdle
  /\ resp = NoResponse
  /\ logged = <<>>
  /\ prev = NoPrev
  /\ LogVarsUnused /\ WatchVarsUnused /\ MwVarsUnused /\ ServeVarsUnused
  /\ ConcUnused

NextIdem ==
  \/ \E u \in IdemUrls, loc \in ServeLocations : NextRequest(u, loc)
  \/ GetTraversalCheck
  \/ GetResolve
  \/ GetContainCheck
  \/ GetOpen
  \/ GetRead
  \/ AssetRespond
  \/ RepeatGet
  \/ RepeatExists
  \/ ExistsTraversalCheck
  \/ ExistsResolve
  \/ ExistsContainCheck
  \/ ExistsStat
  \/ Remember

SpecIdem == InitIdem /\ [][NextIdem]_vars

\* ------------------------------------------------------------------------
\* C11. Idempotence: on an unchanged file system repeated Get calls and
\* asset requests for the same path return identical bytes and an identical
\* content type; a Get or Exists call changes neither the LocalStorage value
\* (its base path) nor any other program state.
\* ------------------------------------------------------------------------
C11_SameResult ==
  prev.set
    => /\ (get.pc = "done" /\ basePath = prev.base /\ reqPath = prev.path)
            => get.data = prev.data /\ get.err = prev.err
       /\ (hd.pc = "done" /\ hd.url = prev.url)
            => /\ resp.status = prev.resp.status
               /\ resp.body = prev.resp.body
               /\ resp.contentType = prev.resp.contentType

C11_CallRunning == get.pc \notin {"idle", "done"} \/ ex.pc \notin {"idle", "done"}

C11_NoWrite ==
  C11_CallRunning
    => /\ UNCHANGED <<basePath, cwd, fs, reqPath, assetsBasePath, hd, resp,
                      logged, aux>>
       /\ get' = get \/ ex' = ex

C11_Idempotence == [](C11_SameResult) /\ [][C11_NoWrite]_vars

C11_Witness ==
  /\ prev.set
  /\ hd.pc = "done"
  /\ hd.url = prev.url
  /\ hd.storageLocation # prev.loc
  /\ get.pc = "done"
  /\ ex.pc = "done"
  /\ resp.status = 200
  /\ resp.contentType = "image/svg+xml"
  /\ Ext(hd.assetPath) = <<Dot, "j", "p", "g">>

\* ------------------------------------------------------------------------
\* Concurrent requests for /assets/: one goroutine per request, each with
\* its own locals, all reading assetsBasePath and the file system
\* ------------------------------------------------------------------------
vars_but_conc ==
  <<basePath, cwd, fs, reqPath, get, ex, assetsBasePath, hd, resp, logged,
    logVars, watchVars, mwVars, serveVars, prev>>

MaxRequests == 2

Requests == 1..MaxRequests

\* storage.go 26-48: both checks of Get; the full path when they pass
GetChecks(base, wd, path) ==
  LET cleanPath == Clean(path)
      fullPath == Join(base, cleanPath)
  IN IF TraversalDetected(cleanPath)
       THEN [err |-> ErrTraversal, fullPath |-> <<>>]
     ELSE IF AbsFails(base, wd)
       THEN [err |-> FmtErrorf("failed to resolve base path",
                               PathError("getwd", <<>>, "ENOENT")),
             fullPath |-> fullPath]
     ELSE IF AbsFails(fullPath, wd)
       THEN [err |-> FmtErrorf("failed to resolve file path",
                               PathError("getwd", <<>>, "ENOENT")),
             fullPath |-> fullPath]
     ELSE IF ~WithinBase(Abs(fullPath, wd), Abs(base, wd))
       THEN [err |-> ErrOutside, fullPath |-> fullPath]
     ELSE [err |-> Nil, fullPath |-> fullPath]

\* storage.go 50-59: open and read
GetOpenRead(files, wd, fullPath) ==
  LET errno == OpenErrno(files, wd, fullPath)
      r == ReadAll(files, wd, fullPath)
  IN IF errno # ""
       THEN IF IsNotExist(errno)
              THEN [data |-> <<>>, err |-> ErrNotFound]
              ELSE [data |-> <<>>,
                    err |-> FmtErrorf("failed to open file",
                                      PathError("open", fullPath, errno))]
     ELSE IF r.errno # ""
       THEN [data |-> r.data,
             err |-> FmtErrorf("", PathError("read", fullPath, r.errno))]
     ELSE [data |-> r.data, err |-> Nil]

\* main.go 167-185: the response made from the result of store.Get
HandlerResponse(assetPath, data, err) ==
  IF err # Nil THEN ErrorResponse(err)
  ELSE [status |-> 200, contentType |-> ContentType(assetPath, data),
        cacheControl |-> "public, max-age=31536000", body |-> data,
        sliced |-> Sliced(data)]

\* the locals of one run of the handler
NoFrame ==
  [assetPath |-> <<>>, store |-> <<>>, fullPath |-> <<>>, data |-> <<>>,
   err |-> Nil]

\* all requests keeping their locals in one place
FrameShared(r) == 1

\* the locals of request r live in the frame of its own goroutine
FrameOf(r) == r

ConcIdle ==
  [pc |-> [r \in Requests |-> "idle"], url |-> [r \in Requests |-> <<>>],
   loc |-> [r \in Requests |-> ""], resp |-> [r \in Requests |-> NoResponse],
   frame |-> [r \in Requests |-> NoFrame]]

\* main.go 147-164: the handler starts on request r
ConcStart(r, u, loc) ==
  /\ conc.pc[r] \in {"idle", "done"}
  /\ conc' = [conc EXCEPT
                !.pc[r] = "check", !.url[r] = u, !.loc[r] = loc,
                !.resp[r] = NoResponse,
                !.frame[FrameOf(r)] =
                   [NoFrame EXCEPT !.assetPath = TrimPrefix(u, AssetsPrefix),
                                   !.store = NewLocalStorage(assetsBasePath)]]
  /\ UNCHANGED vars_but_conc

\* storage.go 26-48, in the goroutine of request r
ConcCheck(r) ==
  /\ conc.pc[r] = "check"
  /\ LET f == conc.frame[FrameOf(r)]
         c == GetChecks(f.store, cwd, f.assetPath)
     IN conc' = [conc EXCEPT
                   !.pc[r] = IF c.err = Nil THEN "open" ELSE "respond",
                   !.frame[FrameOf(r)] =
                      [f EXCEPT !.fullPath = c.fullPath, !.err = c.err]]
  /\ UNCHANGED vars_but_conc

\* storage.go 50-59, in the goroutine of request r
ConcOpenRead(r) ==
  /\ conc.pc[r] = "open"
  /\ LET f == conc.frame[FrameOf(r)]
         g == GetOpenRead(fs, cwd, f.fullPath)
     IN conc' = [conc EXCEPT
                   !.pc[r] = "respond",
                   !.frame[FrameOf(r)] = [f EXCEPT !.data = g.data, !.err = g.err]]
  /\ UNCHANGED vars_but_conc

\* main.go 166-185, in the goroutine of request r
ConcRespond(r) ==
  /\ conc.pc[r] = "respond"
  /\ LET f == conc.frame[FrameOf(r)] IN
     conc' = [conc EXCEPT
                !.pc[r] = "done",
                !.resp[r] = HandlerResponse(f.assetPath, f.data, f.err)]
  /\ UNCHANGED vars_but_conc

ConcUrls ==
  {AssetsPrefix \o n : n \in {<<"x", Dot, "j", "p", "g">>,
                              <<"x", Dot, "b", "i", "n">>,
                              <<"m", Dot, "p", "n", "g">>}}

InitConc ==
  /\ conc = ConcIdle
  /\ cwd = AppDir
  /\ assetsBasePath = AssetsBasePath(<<>>)
  /\ fs \in {AssetTree(Abs(AssetsBasePath(<<>>), AppDir), e) : e \in IdemEntries}
  /\ basePath = <<>>
  /\ reqPath = <<>>
  /\ get = GetIdle
  /\ ex = ExistsIdle
  /\ hd = HandlerIdle
  /\ resp = NoResponse
  /\ logged = <<>>
  /\ LogVarsUnused /\ WatchVarsUnused /\ MwVarsUnused /\ ServeVarsUnused
  /\ PrevUnused

NextConc ==
  \/ \E r \in Requests, u \in ConcUrls, loc \in ServeLocations : ConcStart(r, u, loc)
  \/ \E r \in Requests : ConcCheck(r)
  \/ \E r \in Requests : ConcOpenRead(r)
  \/ \E r \in Requests : ConcRespond(r)

SpecConc == InitConc /\ [][NextConc]_vars

\* ------------------------------------------------------------------------
\* C18. No interference between concurrent requests: in every interleaving
\* of asset requests each response (status, Content-Type, body) equals the
\* response the request gets when handled alone on the same file system and
\* flag value; no step of a request writes what another request uses, and
\* the storage root is only read.
\* ------------------------------------------------------------------------
AloneResponse(u, base, wd, files) ==
  LET assetPath == TrimPrefix(u, AssetsPrefix)
      c == GetChecks(NewLocalStorage(base), wd, assetPath)
      g == GetOpenRead(files, wd, c.fullPath)
  IN IF c.err # Nil THEN HandlerResponse(assetPath, <<>>, c.err)
     ELSE HandlerResponse(assetPath, g.data, g.err)

C18_AsAlone ==
  \A r \in Requests :
    conc.pc[r] = "done"
      => conc.resp[r] = AloneResponse(conc.url[r], assetsBasePath, cwd, fs)

C18_OwnFrameOnly ==
  /\ UNCHANGED <<assetsBasePath, cwd, fs>>
  /\ \A r \in Requests :
       conc'.pc[r] # conc.pc[r]
         => \A q \in Requests \ {r} :
              /\ conc'.frame[q] = conc.frame[q]
              /\ conc'.resp[q] = conc.resp[q]
              /\ conc'.pc[q] = conc.pc[q]

C18_NoInterference == [](C18_AsAlone) /\ [][C18_OwnFrameOnly]_vars

C18_Witness ==
  /\ conc.pc[1] = "respond"
  /\ conc.pc[2] = "done"
  /\ conc.url[1] # conc.url[2]
  /\ conc.frame[1].err = Nil
  /\ conc.frame[1].data # <<>>
  /\ conc.resp[2].status = 404

\* ------------------------------------------------------------------------
\* C21. Backend selection falls back to local: for every value of the
\* ImageStorageLocation flag the handler serves from a LocalStorage rooted
\* at the configured assets base path, so the response to a request path on
\* a file system is the same whatever the flag's value, also when the flag
\* changes between requests.
\* ------------------------------------------------------------------------
C21_LocalFallback ==
  hd.pc # "idle"
    => /\ basePath = NewLocalStorage(assetsBasePath)
       /\ hd.pc = "done"
            => resp = AloneResponse(hd.url, assetsBasePath, cwd, fs)

C21_Witness ==
  /\ hd.pc = "done"
  /\ hd.storageLocation = "bucket"
  /\ Len(logged) = 1
  /\ logged[1].level = "warn"
  /\ resp.status = 200
  /\ resp.body # <<>>

\* ------------------------------------------------------------------------
\* db.OpenFromEnv: open the pool and wait for the database (package db).
\* Time is counted in seconds from the call.
\* ------------------------------------------------------------------------
vars_but_db ==
  <<basePath, cwd, fs, reqPath, get, ex, assetsBasePath, hd, resp, logged,
    logVars, watchVars, mwVars, proc, offline, served, prev, conc>>

\* deadline := time.Now().Add(40 * time.Second)
WaitSeconds == 40

\* context.WithTimeout(ctx, 2*time.Second)
PingTimeout == 2

\* time.Sleep(1 * time.Second)
RetrySleep == 1

\* AUTH_DB_URL: unset, blank, not parsable as a URL, refused by the driver
\* in sql.Open, or usable
DbUrls == {"empty", "blank", "unparsable", "rejected", "good"}

\* how long a ping may take
PingSeconds == 0..PingTimeout

NoError == [msg |-> "nil", attempt |-> 0]

\* the failure of the ping of an attempt
PingFailure(attempt) == [msg |-> "ping failed", attempt |-> attempt]

\* fmt.Errorf("db.Ping: %w", lastErr)
WrapPing(lastErr) == [msg |-> "db.Ping", attempt |-> lastErr.attempt]

\* the frame of a call for a given AUTH_DB_URL
OpenFrame(url, up) ==
  [url |-> url, up |-> up, pc |-> "start", now |-> 0, deadline |-> 0,
   attempt |-> 0, pings |-> 0, okAt |-> 0, lastErr |-> NoError,
   pool |-> "none", handle |-> FALSE, err |-> NoError]

\* time.Now().Before(deadline)
BeforeDeadline(now, deadline) == now < deadline

\* db.go 28-52: the URL is read and normalised, the pool opened, the
\* deadline set
OpenStart ==
  /\ db.pc = "start"
  /\ db' = IF db.url \in {"empty", "blank"}
             THEN [db EXCEPT !.pc = "returned",
                             !.err = [msg |-> "AUTH_DB_URL is empty", attempt |-> 0]]
           ELSE IF db.url = "unparsable"
             THEN [db EXCEPT !.pc = "returned",
                             !.err = [msg |-> "cannot parse", attempt |-> 0]]
           ELSE IF db.url = "rejected"
             THEN [db EXCEPT !.pc = "returned",
                             !.err = [msg |-> "sql.Open(pgx)", attempt |-> 0]]
           ELSE [db EXCEPT !.pc = "loop", !.pool = "open",
                           !.deadline = db.now + WaitSeconds]
  /\ UNCHANGED vars_but_db

\* db.go 55 and 72-73: the loop test; when it fails the pool is closed and
\* the last ping failure returned
OpenLoopTest ==
  /\ db.pc = "loop"
  /\ db' = IF BeforeDeadline(db.now, db.deadline)
             THEN [db EXCEPT !.pc = "ping", !.attempt = db.attempt + 1]
             ELSE [db EXCEPT !.pc = "returned", !.pool = "closed",
                             !.err = WrapPing(db.lastErr)]
  /\ UNCHANGED vars_but_db

\* db.go 57-63: a ping taking d seconds; it succeeds only on a database that
\* is up and answers within the timeout
OpenPing(d, ok) ==
  /\ db.pc = "ping"
  /\ ok => (db.up /\ d < PingTimeout)
  /\ ~db.up => d \in {0, PingTimeout}
  /\ db' = IF ok
             THEN [db EXCEPT !.pc = "returned", !.now = db.now + d,
                             !.pings = db.pings + 1, !.okAt = db.attempt,
                             !.lastErr = NoError, !.handle = TRUE]
             ELSE [db EXCEPT !.pc = "sleep", !.now = db.now + d,
                             !.pings = db.pings + 1,
                             !.lastErr = PingFailure(db.attempt)]
  /\ UNCHANGED vars_but_db

\* db.go 64-69: the failure is logged and the loop sleeps
OpenSleep ==
  /\ db.pc = "sleep"
  /\ db' = [db EXCEPT !.pc = "loop", !.now = db.now + RetrySleep]
  /\ UNCHANGED vars_but_db

\* the database comes up or goes down while the call is waiting
DbUpDown ==
  /\ db.pc \in {"loop", "ping", "sleep"}
  /\ db' = [db EXCEPT !.up = ~db.up]
  /\ UNCHANGED vars_but_db

OpenFromEnv ==
  \/ OpenStart
  \/ OpenLoopTest
  \/ \E d \in PingSeconds, ok \in BOOLEAN : OpenPing(d, ok)
  \/ OpenSleep

InitDb ==
  /\ db \in {OpenFrame(url, up) : url \in DbUrls, up \in BOOLEAN}
  /\ proc = "none" /\ offline = FALSE /\ served = <<>>
  /\ basePath = <<>> /\ cwd = NoCwd /\ fs = <<>> /\ reqPath = <<>>
  /\ get = GetIdle /\ ex = ExistsIdle /\ assetsBasePath = <<>>
  /\ hd = HandlerIdle /\ resp = NoResponse /\ logged = <<>>
  /\ LogVarsUnused /\ WatchVarsUnused /\ MwVarsUnused
  /\ PrevUnused /\ ConcUnused

NextDb ==
  \/ OpenStart
  \/ OpenLoopTest
  \/ \E d \in PingSeconds, ok \in BOOLEAN : OpenPing(d, ok)
  \/ OpenSleep
  \/ DbUpDown

\* the goroutine of the call keeps running; nothing is assumed about the
\* database
SpecDb == InitDb /\ [][NextDb]_vars /\ WF_vars(OpenFromEnv)

\* ------------------------------------------------------------------------
\* C22. Database open with retry: OpenFromEnv returns an error without
\* opening anything when AUTH_DB_URL is empty; otherwise it pings
\* repeatedly and returns a handle if and only if some ping succeeded,
\* returning at the first successful ping; it waits up to about 20 seconds,
\* and when the wait expires without a successful ping it closes the pool
\* and returns an error wrapping the last ping failure; the call always
\* terminates.
\* ------------------------------------------------------------------------
ClaimedWait == 20

C22_EmptyUrl ==
  (db.pc = "returned" /\ db.url = "empty")
    => db.pool = "none" /\ db.pings = 0 /\ ~db.handle /\ db.err # NoError

C22_HandleIffPing ==
  /\ db.pc = "returned" => (db.handle <=> db.okAt > 0)
  /\ db.pc = "returned" => (db.handle <=> db.err = NoError)
  /\ db.okAt > 0 => (db.pc = "returned" /\ db.okAt = db.attempt)

C22_Expiry ==
  (db.pc = "returned" /\ db.pool # "none" /\ ~db.handle)
    => /\ db.pool = "closed"
       /\ db.pings > 0
       /\ db.err = [msg |-> "db.Ping", attempt |-> db.attempt]

C22_WithinClaimedWait ==
  db.now <= ClaimedWait + PingTimeout + RetrySleep

C22_OpenWithRetry ==
  /\ [](C22_EmptyUrl /\ C22_HandleIffPing /\ C22_Expiry /\ C22_WithinClaimedWait)
  /\ <>(db.pc = "returned")

\* ------------------------------------------------------------------------
\* C23. Logged status equals sent status: for every handler run under
\* LogRequests on a path that is not skipped, and every sequence of Write
\* and WriteHeader calls it makes, the status in the log line equals the
\* status the client receives from the underlying ResponseWriter.
\* ------------------------------------------------------------------------
C23_LoggedIsSent ==
  (mwReq.pc = "served" /\ mwReq.wrapped)
    => /\ Len(mwReq.lines) = 1
       /\ mwReq.lines[1].status = mwReq.sent

====
